---- MODULE Spec2Model ----
(***************************************************************************)
(* Model of the file-size-guard PreToolUse hook (hooks/file-size-guard.cjs *)
(* with its modules line-counter.cjs and threshold-checker.cjs).           *)
(*                                                                         *)
(* One process run of the hook is a pass Idle -> ... -> Done; the file     *)
(* system (configuration files, target file) is the environment.  Strings  *)
(* are TLA+ strings, read with Len, SubSeq and \o.  JSON values are        *)
(* records tagged by their JavaScript type in field t.                     *)
(***************************************************************************)
EXTENDS Integers, Sequences, FiniteSets, TLC

VARIABLES
  pc,          \* position of the hook process in main()
  hookInput,   \* what the process reads on stdin
  data,        \* JSON.parse(hookInput)
  ckFiles,     \* the three .ck.json search locations, in search order
  disk,        \* the target file as found on disk, per resolved path
  config,      \* result of getThresholdConfig
  filePath,    \* resolved target path
  currentLines,
  estimatedLines,
  exitCode,    \* process exit status, NoExit while running
  stderr,      \* what the process wrote to the diagnostic stream
  trace,       \* the module functions main() has called in this run
  override,    \* result of getFileOverride on the target file
  settings,    \* ~/.claude/settings.json
  hookFiles,   \* whether ~/.claude/hooks holds the hook and its modules
  toggled,     \* the last of enable and disable that ran to its end
  lastRun      \* the last maintenance script that ran

vars == <<pc, hookInput, data, ckFiles, disk, config, filePath,
          currentLines, estimatedLines, exitCode, stderr, trace,
          override, settings, hookFiles, toggled, lastRun>>

-----------------------------------------------------------------------------
(* Bounds of the enumerated inputs *)

\* contents are drawn with line counts within LineSpread of each threshold
LineSpread == 1

-----------------------------------------------------------------------------
(* Strings *)

Min(a, b) == IF a < b THEN a ELSE b

Max(a, b) == IF a > b THEN a ELSE b

CharAt(s, i) == SubSeq(s, i, i)

\* s.slice(i - 1, i - 1 + n), clipped at the end of s
Slice(s, i, n) == IF i > Len(s) \/ n <= 0 THEN "" ELSE SubSeq(s, i, Min(Len(s), i + n - 1))

\* s.slice(i - 1)
From(s, i) == IF i > Len(s) THEN "" ELSE SubSeq(s, i, Len(s))

StartsAt(s, i, lit) == Slice(s, i, Len(lit)) = lit

EndsWith(s, suf) == Len(suf) <= Len(s) /\ From(s, Len(s) - Len(suf) + 1) = suf

\* String.prototype.includes
Includes(s, sub) == \E i \in 1..(Len(s) + 1) : StartsAt(s, i, sub)

RECURSIVE Repeat(_, _)
\* String.prototype.repeat, by halving
Repeat(s, n) ==
  IF n <= 0 THEN ""
  ELSE LET half == Repeat(s, n \div 2)
       IN  half \o half \o (IF n % 2 = 1 THEN s ELSE "")

RECURSIVE MapRange(_, _, _, _)
\* the characters i..j of s, each character c in DOMAIN f replaced by f[c]
MapRange(s, f, i, j) ==
  IF i > j THEN ""
  ELSE IF i = j THEN (IF CharAt(s, i) \in DOMAIN f THEN f[CharAt(s, i)] ELSE CharAt(s, i))
  ELSE LET m == (i + j) \div 2
       IN  MapRange(s, f, i, m) \o MapRange(s, f, m + 1, j)

\* replaces every character c of s that is in DOMAIN f by f[c]
MapChars(s, f) == MapRange(s, f, 1, Len(s))

\* filePath.replace(/\\/g, '/')
NormalizeSlashes(s) == MapChars(s, [c \in {"\\"} |-> "/"])

UpperToLower ==
  [c \in {"A", "B", "C", "D", "E", "F", "G", "H", "I", "J", "K", "L", "M",
          "N", "O", "P", "Q", "R", "S", "T", "U", "V", "W", "X", "Y", "Z"} |->
     CASE c = "A" -> "a" [] c = "B" -> "b" [] c = "C" -> "c" [] c = "D" -> "d"
       [] c = "E" -> "e" [] c = "F" -> "f" [] c = "G" -> "g" [] c = "H" -> "h"
       [] c = "I" -> "i" [] c = "J" -> "j" [] c = "K" -> "k" [] c = "L" -> "l"
       [] c = "M" -> "m" [] c = "N" -> "n" [] c = "O" -> "o" [] c = "P" -> "p"
       [] c = "Q" -> "q" [] c = "R" -> "r" [] c = "S" -> "s" [] c = "T" -> "t"
       [] c = "U" -> "u" [] c = "V" -> "v" [] c = "W" -> "w" [] c = "X" -> "x"
       [] c = "Y" -> "y" [] c = "Z" -> "z"]

\* String.prototype.toLowerCase on ASCII text
ToLowerCase(s) == MapChars(s, UpperToLower)

RECURSIVE ScanRange(_, _, _, _, _)
\* left-to-right scan of the positions a..b of s for occurrences of sep, none
\* starting before position p: the number found and the position after the last
ScanRange(s, sep, p, a, b) ==
  IF a > b THEN [n |-> 0, p |-> p]
  ELSE IF a = b
  THEN (IF p <= a /\ StartsAt(s, a, sep) THEN [n |-> 1, p |-> a + Len(sep)]
        ELSE [n |-> 0, p |-> p])
  ELSE LET m == (a + b) \div 2
           left == ScanRange(s, sep, p, a, m)
           right == ScanRange(s, sep, left.p, m + 1, b)
       IN  [n |-> left.n + right.n, p |-> right.p]

\* number of non-overlapping occurrences of sep in s; an empty separator
\* splits between every two characters
Occurrences(s, sep) ==
  IF Len(sep) = 0 THEN Len(s) - 1 ELSE ScanRange(s, sep, 1, 1, Len(s)).n

\* s.split(sep).length
SplitLength(s, sep) == Occurrences(s, sep) + 1

-----------------------------------------------------------------------------
(* JSON values: records tagged by JavaScript type *)

Undefined == [t |-> "undefined"]

Null == [t |-> "null"]

Num(n) == [t |-> "number", v |-> n]

Bool(b) == [t |-> "boolean", v |-> b]

Str(s) == [t |-> "string", v |-> s]

Arr(a) == [t |-> "array", v |-> a]

\* JavaScript truthiness, as used by `x || dflt` and `!x`
Truthy(x) ==
  CASE x.t = "undefined" -> FALSE
    [] x.t = "null" -> FALSE
    [] x.t = "number" -> x.v # 0
    [] x.t = "boolean" -> x.v
    [] x.t = "string" -> x.v # ""
    [] OTHER -> TRUE

\* x || dflt
OrElse(x, dflt) == IF Truthy(x) THEN x ELSE dflt

-----------------------------------------------------------------------------
(* path module (POSIX) *)

CWD == "/proj"

HOME == "/home/u"

\* path.isAbsolute
IsAbsolute(p) == StartsAt(p, 1, "/")

\* path.join of two segments that need no normalisation (no ".", "..", "//")
PathJoin(a, b) == a \o "/" \o b

\* index of the last occurrence of the character c in s, 0 when there is none
LastIndexOf(s, c) ==
  LET hits == {i \in 1..Len(s) : CharAt(s, i) = c}
  IN  IF hits = {} THEN 0 ELSE CHOOSE i \in hits : \A j \in hits : j <= i

\* path.basename
BaseName(p) == From(p, LastIndexOf(p, "/") + 1)

\* path.extname: from the last dot of the base name, "" when the base name has
\* no dot or only a leading one
ExtName(p) ==
  LET base == BaseName(p)
      k == LastIndexOf(base, ".")
  IN  IF k <= 1 THEN "" ELSE From(base, k)

\* resolveFilePath joining a missing path onto the working directory
ResolveFilePathNoGuard(fp) ==
  IF ~Truthy(fp) THEN Str(CWD \o "/")
  ELSE IF IsAbsolute(fp.v) THEN Str(fp.v)
  ELSE Str(PathJoin(CWD, fp.v))

\* resolveFilePath; the argument is the JSON value of tool_input.file_path
ResolveFilePath(fp) ==
  IF ~Truthy(fp) THEN Null
  ELSE IF IsAbsolute(fp.v) THEN Str(fp.v)
  ELSE Str(PathJoin(CWD, fp.v))

-----------------------------------------------------------------------------
(* Regular expressions.  A compiled pattern [lit, ends] stands for the      *)
(* expression /lit/ when ends is empty and /lit.*(e1|e2|..)$/ otherwise.    *)

Pat(lit, ends) == [lit |-> lit, ends |-> ends]

\* RegExp.prototype.test
RegExpTest(p, s) ==
  \E i \in 1..(Len(s) + 1) :
    /\ StartsAt(s, i, p.lit)
    /\ \/ p.ends = {}
       \/ \E e \in p.ends :
            /\ EndsWith(s, e)
            /\ Len(s) - Len(e) + 1 >= i + Len(p.lit)
            /\ ~Includes(Slice(s, i + Len(p.lit), Len(s) - Len(e) + 1 - i - Len(p.lit)), "\n")

RECURSIVE Unescape(_, _)
\* the literal text of a pattern source: a backslash makes the next character literal
Unescape(src, i) ==
  IF i > Len(src) THEN ""
  ELSE IF CharAt(src, i) = "\\" THEN Slice(src, i + 1, 1) \o Unescape(src, i + 2)
  ELSE CharAt(src, i) \o Unescape(src, i + 1)

RECURSIVE HasBareMeta(_, _)
\* an unescaped "(" or "[" that is never closed, or a "*" with nothing to repeat
HasBareMeta(src, i) ==
  IF i > Len(src) THEN FALSE
  ELSE IF CharAt(src, i) = "\\" THEN (i = Len(src)) \/ HasBareMeta(src, i + 2)
  ELSE IF CharAt(src, i) = "(" THEN ~Includes(From(src, i + 1), ")")
  ELSE IF CharAt(src, i) = "[" THEN TRUE
  ELSE IF CharAt(src, i) = "*" /\ i = 1 THEN TRUE
  ELSE HasBareMeta(src, i + 1)

\* the alternatives of a group body a|b|c
Alternatives(body) ==
  LET bars == {0, Len(body) + 1} \cup {k \in 1..Len(body) : CharAt(body, k) = "|"}
  IN  {Slice(body, i + 1, j - i - 1) :
         <<i, j>> \in {b \in bars \X bars :
                        b[1] < b[2] /\ \A k \in bars : ~(b[1] < k /\ k < b[2])}}

\* new RegExp(src) for sources made of literal characters, escapes, a final $
\* and a group of alternatives right before the final $;
\* Null stands for the SyntaxError
NewRegExp(src) ==
  IF HasBareMeta(src, 1) THEN Null
  ELSE IF EndsWith(src, ")$") /\ Includes(src, "(")
       THEN LET open == CHOOSE i \in 1..Len(src) :
                          CharAt(src, i) = "(" /\ \A j \in 1..(i - 1) : CharAt(src, j) # "("
                head == Unescape(Slice(src, 1, open - 1), 1)
                body == Slice(src, open + 1, Len(src) - open - 2)
            IN  [t |-> "regexp", v |-> Pat("", {head \o a : a \in Alternatives(body)})]
  ELSE IF EndsWith(src, "$") /\ ~EndsWith(src, "\\$")
       THEN [t |-> "regexp", v |-> Pat("", {Unescape(SubSeq(src, 1, Len(src) - 1), 1)})]
       ELSE [t |-> "regexp", v |-> Pat(Unescape(src, 1), {})]

\* safeRegExp
safeRegExp(pattern) == NewRegExp(pattern)

-----------------------------------------------------------------------------
(* threshold-checker.cjs *)

DEFAULT_WARN_THRESHOLD == 120

DEFAULT_BLOCK_THRESHOLD == 200

DEFAULT_EXCLUDE_PATTERNS == <<
  Pat("", {"package-lock.json"}),
  Pat("", {"pnpm-lock.yaml"}),
  Pat("", {"yarn.lock"}),
  Pat("", {"Cargo.lock"}),
  Pat("", {"poetry.lock"}),
  Pat("", {".min.js", ".min.css"}),
  Pat("", {".bundle.js", ".bundle.css"}),
  Pat(".generated.", {}),
  Pat("", {".d.ts"}),
  Pat("", {".config.js", ".config.ts", ".config.cjs", ".config.mjs"}),
  Pat("tsconfig", {".json"}),
  Pat(".eslintrc", {}),
  Pat(".prettierrc", {}),
  Pat("", {".json"}),
  Pat("", {".yaml"}),
  Pat("", {".yml"}),
  Pat("", {".toml"}),
  Pat("", {".xml"}),
  Pat("", {".md"}),
  Pat("", {".mdx"}),
  Pat("", {".rst"}),
  Pat("", {".txt"}),
  Pat("__fixtures__/", {}),
  Pat("__snapshots__/", {}),
  Pat("", {".snap"}),
  Pat("", {".test.ts", ".test.tsx", ".test.js", ".test.jsx", ".test.mjs", ".test.cjs"}),
  Pat("", {".spec.ts", ".spec.tsx", ".spec.js", ".spec.jsx", ".spec.mjs", ".spec.cjs"}),
  Pat("", {"_test.go"}),
  Pat("test_", {".py"}),
  Pat("", {"_test.py"}) >>

\* size of the leading window getFileOverride reads
OVERRIDE_WINDOW == 4096

DIRECTIVE == "@file-size-guard:"

Digits == {"0", "1", "2", "3", "4", "5", "6", "7", "8", "9"}

DigitValue(c) ==
  CASE c = "0" -> 0 [] c = "1" -> 1 [] c = "2" -> 2 [] c = "3" -> 3 [] c = "4" -> 4
    [] c = "5" -> 5 [] c = "6" -> 6 [] c = "7" -> 7 [] c = "8" -> 8 [] c = "9" -> 9

RECURSIVE SkipSpace(_, _)
\* first position at or after i that holds no white space (\s*)
SkipSpace(s, i) ==
  IF i <= Len(s) /\ CharAt(s, i) \in {" ", "\t", "\n", "\r"} THEN SkipSpace(s, i + 1) ELSE i

RECURSIVE DigitsEnd(_, _)
\* first position at or after i that holds no digit (\d+ is greedy)
DigitsEnd(s, i) ==
  IF i <= Len(s) /\ CharAt(s, i) \in Digits THEN DigitsEnd(s, i + 1) ELSE i

RECURSIVE ParseInt(_, _, _)
\* parseInt(s.slice(i - 1, j - 1), 10) on a run of digits, acc the value read so far
ParseInt(s, i, acc) ==
  IF i <= Len(s) /\ CharAt(s, i) \in Digits
  THEN ParseInt(s, i + 1, 10 * acc + DigitValue(CharAt(s, i)))
  ELSE acc

NoOverride == [kind |-> "none", maxLines |-> 0]

\* the match of /@file-size-guard:\s*(max-lines=(\d+)|disabled)/i that starts at i
DirectiveAt(low, i) ==
  IF ~StartsAt(low, i, DIRECTIVE) THEN NoOverride
  ELSE LET j == SkipSpace(low, i + Len(DIRECTIVE))
       IN  IF StartsAt(low, j, "max-lines=") /\ DigitsEnd(low, j + 10) > j + 10
           THEN [kind |-> "maxLines", maxLines |-> ParseInt(low, j + 10, 0)]
           ELSE IF StartsAt(low, j, "disabled")
           THEN [kind |-> "disabled", maxLines |-> 0]
           ELSE NoOverride

\* getFileOverride matching over the whole file
getFileOverrideWholeFile(f) ==
  IF ~f.exists \/ f.kind # "file" \/ ~f.readable THEN NoOverride
  ELSE LET low == ToLowerCase(f.content)
           hits == {i \in 1..Len(low) : DirectiveAt(low, i).kind # "none"}
       IN  IF hits = {} THEN NoOverride
           ELSE DirectiveAt(low, CHOOSE i \in hits : \A j \in hits : i <= j)

\* getFileOverride; f is the file found at filePath
getFileOverride(f) ==
  IF ~f.exists THEN NoOverride
  ELSE IF f.kind # "file" THEN NoOverride
  ELSE IF ~f.readable THEN NoOverride
  ELSE LET content == Slice(f.content, 1, OVERRIDE_WINDOW)
           low == ToLowerCase(content)
           hits == {i \in 1..Len(low) : DirectiveAt(low, i).kind # "none"}
       IN  IF Len(content) = 0 \/ hits = {} THEN NoOverride
           ELSE DirectiveAt(low, CHOOSE i \in hits : \A j \in hits : i <= j)

\* isWhitelisted
isWhitelisted(path, whitelistPaths) ==
  IF Len(whitelistPaths) = 0 THEN FALSE
  ELSE \E k \in 1..Len(whitelistPaths) :
         Includes(NormalizeSlashes(path), NormalizeSlashes(whitelistPaths[k]))

\* shouldExclude testing the path as given, backslashes kept
shouldExcludeRaw(path, excludePatterns) ==
  \E k \in 1..Len(excludePatterns) : RegExpTest(excludePatterns[k], path)

\* shouldExclude
shouldExclude(path, excludePatterns) ==
  \E k \in 1..Len(excludePatterns) : RegExpTest(excludePatterns[k], NormalizeSlashes(path))

\* checkThreshold with exclusive boundaries
checkThresholdStrict(lines, cfg) ==
  LET warnThreshold == OrElse(cfg.warnThreshold, Num(DEFAULT_WARN_THRESHOLD)).v
      blockThreshold == OrElse(cfg.blockThreshold, Num(DEFAULT_BLOCK_THRESHOLD)).v
  IN  IF lines > blockThreshold
      THEN [status |-> "block", threshold |-> blockThreshold, lines |-> lines]
      ELSE IF lines > warnThreshold
      THEN [status |-> "warn", threshold |-> warnThreshold, lines |-> lines]
      ELSE [status |-> "ok", threshold |-> warnThreshold, lines |-> lines]

\* checkThreshold blocking only at the block threshold itself
checkThresholdExact(lines, cfg) ==
  LET warnThreshold == OrElse(cfg.warnThreshold, Num(DEFAULT_WARN_THRESHOLD)).v
      blockThreshold == OrElse(cfg.blockThreshold, Num(DEFAULT_BLOCK_THRESHOLD)).v
  IN  IF lines = blockThreshold
      THEN [status |-> "block", threshold |-> blockThreshold, lines |-> lines]
      ELSE IF lines >= warnThreshold
      THEN [status |-> "warn", threshold |-> warnThreshold, lines |-> lines]
      ELSE [status |-> "ok", threshold |-> warnThreshold, lines |-> lines]

\* checkThreshold; cfg carries warnThreshold and blockThreshold as JSON values
checkThreshold(lines, cfg) ==
  LET warnThreshold == OrElse(cfg.warnThreshold, Num(DEFAULT_WARN_THRESHOLD)).v
      blockThreshold == OrElse(cfg.blockThreshold, Num(DEFAULT_BLOCK_THRESHOLD)).v
  IN  IF lines >= blockThreshold
      THEN [status |-> "block", threshold |-> blockThreshold, lines |-> lines]
      ELSE IF lines >= warnThreshold
      THEN [status |-> "warn", threshold |-> warnThreshold, lines |-> lines]
      ELSE [status |-> "ok", threshold |-> warnThreshold, lines |-> lines]

\* the list cut at its first entry that does not compile
CompileAllStopAtInvalid(srcs, k) ==
  LET bad == {i \in k..Len(srcs) : safeRegExp(srcs[i]).t = "null"}
      last == IF bad = {} THEN Len(srcs) ELSE (CHOOSE i \in bad : \A j \in bad : i <= j) - 1
  IN  [i \in 1..(last - k + 1) |-> safeRegExp(srcs[k + i - 1]).v]

RECURSIVE CompileAll(_, _)
\* fileSizeGuard.excludePatterns.map(p => safeRegExp(p)).filter(p => p !== null)
CompileAll(srcs, k) ==
  IF k > Len(srcs) THEN << >>
  ELSE LET re == safeRegExp(srcs[k])
       IN  (IF re.t = "null" THEN << >> ELSE << re.v >>) \o CompileAll(srcs, k + 1)

NoGuardSettings ==
  [enabled |-> Undefined, warnThreshold |-> Undefined, blockThreshold |-> Undefined,
   excludePatterns |-> Undefined, whitelistPaths |-> Undefined]

\* the settings read from a key the configuration never has
GuardSettingsWrongKey(ckConfig) == NoGuardSettings

\* ckConfig.fileSizeGuard || {}
GuardSettings(ckConfig) ==
  IF ckConfig.t = "object" /\ ckConfig.fileSizeGuard.t = "object"
  THEN ckConfig.fileSizeGuard.v ELSE NoGuardSettings

\* getThresholdConfig with the custom patterns added to the built-in ones
getThresholdConfigUnion(ckConfig) ==
  LET fileSizeGuard == GuardSettings(ckConfig)
      customPatterns == IF fileSizeGuard.excludePatterns.t = "array"
                        THEN CompileAll(fileSizeGuard.excludePatterns.v, 1) ELSE << >>
  IN  [warnThreshold |-> OrElse(fileSizeGuard.warnThreshold, Num(DEFAULT_WARN_THRESHOLD)),
       blockThreshold |-> OrElse(fileSizeGuard.blockThreshold, Num(DEFAULT_BLOCK_THRESHOLD)),
       excludePatterns |-> customPatterns \o DEFAULT_EXCLUDE_PATTERNS,
       whitelistPaths |-> IF fileSizeGuard.whitelistPaths.t = "array"
                          THEN fileSizeGuard.whitelistPaths.v ELSE << >>]

\* getThresholdConfig taking a configured 0 as a threshold
getThresholdConfigKeepZero(ckConfig) ==
  LET fileSizeGuard == GuardSettings(ckConfig)
      customPatterns == IF fileSizeGuard.excludePatterns.t = "array"
                        THEN CompileAll(fileSizeGuard.excludePatterns.v, 1) ELSE << >>
  IN  [warnThreshold |-> IF fileSizeGuard.warnThreshold.t = "number" THEN fileSizeGuard.warnThreshold
                         ELSE Num(DEFAULT_WARN_THRESHOLD),
       blockThreshold |-> IF fileSizeGuard.blockThreshold.t = "number" THEN fileSizeGuard.blockThreshold
                          ELSE Num(DEFAULT_BLOCK_THRESHOLD),
       excludePatterns |-> IF Len(customPatterns) > 0 THEN customPatterns
                           ELSE DEFAULT_EXCLUDE_PATTERNS,
       whitelistPaths |-> IF fileSizeGuard.whitelistPaths.t = "array"
                          THEN fileSizeGuard.whitelistPaths.v ELSE << >>]

\* getThresholdConfig
getThresholdConfig(ckConfig) ==
  LET fileSizeGuard == GuardSettings(ckConfig)
      customPatterns == IF fileSizeGuard.excludePatterns.t = "array"
                        THEN CompileAll(fileSizeGuard.excludePatterns.v, 1) ELSE << >>
  IN  [warnThreshold |-> OrElse(fileSizeGuard.warnThreshold, Num(DEFAULT_WARN_THRESHOLD)),
       blockThreshold |-> OrElse(fileSizeGuard.blockThreshold, Num(DEFAULT_BLOCK_THRESHOLD)),
       excludePatterns |-> IF Len(customPatterns) > 0 THEN customPatterns
                           ELSE DEFAULT_EXCLUDE_PATTERNS,
       whitelistPaths |-> IF fileSizeGuard.whitelistPaths.t = "array"
                          THEN fileSizeGuard.whitelistPaths.v ELSE << >>]

-----------------------------------------------------------------------------
(* line-counter.cjs *)

BINARY_EXTENSIONS ==
  {".png", ".jpg", ".jpeg", ".gif", ".ico", ".webp", ".svg",
   ".woff", ".woff2", ".ttf", ".eot", ".otf",
   ".pdf", ".zip", ".tar", ".gz", ".rar",
   ".mp3", ".mp4", ".avi", ".mov", ".webm",
   ".exe", ".dll", ".so", ".dylib",
   ".db", ".sqlite", ".lock"}

\* isBinaryFile
isBinaryFile(path) == ToLowerCase(ExtName(path)) \in BINARY_EXTENSIONS

\* isRegularFile: lstatSync(filePath).isFile(), false when lstatSync throws
isRegularFile(f) == f.exists /\ f.kind = "file"

\* the count taken through symbolic links and with a failed read reported as
\* a missing file
countLinesFollowLinks(path, f, returnContent) ==
  IF ~f.exists
  THEN [lines |-> 0, exists |-> FALSE, isBinary |-> FALSE, error |-> "none", content |-> Null]
  ELSE IF isBinaryFile(path)
  THEN [lines |-> 0, exists |-> TRUE, isBinary |-> TRUE, error |-> "none", content |-> Null]
  ELSE IF f.kind = "dir" \/ ~f.readable
  THEN [lines |-> 0, exists |-> FALSE, isBinary |-> FALSE, error |-> "message", content |-> Null]
  ELSE [lines |-> SplitLength(f.content, "\n"), exists |-> TRUE, isBinary |-> FALSE,
        error |-> "none", content |-> IF returnContent THEN Str(f.content) ELSE Null]

\* the count with no test of the extension: every regular file is read
countLinesBinaryRead(path, f, returnContent) ==
  IF ~f.exists
  THEN [lines |-> 0, exists |-> FALSE, isBinary |-> FALSE, error |-> "none", content |-> Null]
  ELSE IF ~isRegularFile(f)
  THEN [lines |-> 0, exists |-> TRUE, isBinary |-> FALSE, error |-> "not-regular-file",
        content |-> Null]
  ELSE IF ~f.readable
  THEN [lines |-> 0, exists |-> TRUE, isBinary |-> TRUE, error |-> "encoding-error",
        content |-> Null]
  ELSE [lines |-> SplitLength(f.content, "\n"), exists |-> TRUE, isBinary |-> FALSE,
        error |-> "none", content |-> IF returnContent THEN Str(f.content) ELSE Null]

\* countLines; f is the file found at path, error "none" stands for null
countLines(path, f, returnContent) ==
  IF ~f.exists
  THEN [lines |-> 0, exists |-> FALSE, isBinary |-> FALSE, error |-> "none", content |-> Null]
  ELSE IF ~isRegularFile(f)
  THEN [lines |-> 0, exists |-> TRUE, isBinary |-> FALSE, error |-> "not-regular-file",
        content |-> Null]
  ELSE IF isBinaryFile(path)
  THEN [lines |-> 0, exists |-> TRUE, isBinary |-> TRUE, error |-> "none", content |-> Null]
  ELSE IF ~f.readable
  THEN [lines |-> 0, exists |-> TRUE, isBinary |-> TRUE, error |-> "encoding-error",
        content |-> Null]
  ELSE [lines |-> SplitLength(f.content, "\n"), exists |-> TRUE, isBinary |-> FALSE,
        error |-> "none", content |-> IF returnContent THEN Str(f.content) ELSE Null]

\* the estimate with every occurrence counted whether asked for or not
estimateLinesAfterEditEveryOccurrence(path, f, oldString, newString, replaceAll) ==
  LET counted == countLines(path, f, TRUE)
      lineDelta == SplitLength(newString, "\n") - SplitLength(oldString, "\n")
      occurrences == IF Truthy(counted.content) /\ oldString # ""
                     THEN SplitLength(counted.content.v, oldString) - 1 ELSE 1
      totalDelta == lineDelta * Max(occurrences, 1)
  IN  [currentLines |-> counted.lines, estimatedLines |-> counted.lines + totalDelta,
       delta |-> totalDelta, occurrences |-> occurrences]

\* the estimate with the removed lines subtracted and the added lines left out
estimateLinesAfterEditRemovalOnly(path, f, oldString, newString, replaceAll) ==
  LET counted == countLines(path, f, replaceAll)
      lineDelta == 0 - SplitLength(oldString, "\n")
  IN  [currentLines |-> counted.lines, estimatedLines |-> counted.lines + lineDelta,
       delta |-> lineDelta, occurrences |-> 1]

\* estimateLinesAfterEdit; oldString and newString are strings
estimateLinesAfterEdit(path, f, oldString, newString, replaceAll) ==
  LET counted == countLines(path, f, replaceAll)
      cur == counted.lines
      oldLines == SplitLength(oldString, "\n")
      newLines == SplitLength(newString, "\n")
      lineDelta == newLines - oldLines
  IN  IF replaceAll /\ Truthy(counted.content) /\ oldString # ""
      THEN LET occurrences == SplitLength(counted.content.v, oldString) - 1
               totalDelta == lineDelta * Max(occurrences, 1)
           IN  [currentLines |-> cur, estimatedLines |-> cur + totalDelta,
                delta |-> totalDelta, occurrences |-> occurrences]
      ELSE [currentLines |-> cur, estimatedLines |-> cur + lineDelta,
            delta |-> lineDelta, occurrences |-> 1]

\* the estimate without the test for empty content
estimateLinesForWriteNoGuard(content) == SplitLength(content, "\n")

\* estimateLinesForWrite; content is a string
estimateLinesForWrite(content) ==
  IF content = "" THEN 0 ELSE SplitLength(content, "\n")

-----------------------------------------------------------------------------
(* The environment and the requests the model draws from *)

\* JSON object with the two fields main() reads
Obj(toolName, toolInput) == [t |-> "object", tool_name |-> toolName, tool_input |-> toolInput]

\* tool_input object
Input(fp, content, old, new) ==
  [t |-> "object", file_path |-> fp, content |-> content, old_string |-> old,
   new_string |-> new, replace_all |-> Undefined]

\* tool_input object of an Edit that asks for every occurrence to be replaced
InputAll(fp, old, new) == [Input(fp, Undefined, old, new) EXCEPT !.replace_all = Bool(TRUE)]

\* a .ck.json document
Ck(section) == [t |-> "object", fileSizeGuard |-> [t |-> "object", v |-> section]]

Settings(enabled, warn, block, excl, white) ==
  [enabled |-> enabled, warnThreshold |-> warn, blockThreshold |-> block,
   excludePatterns |-> excl, whitelistPaths |-> white]

AbsentFile == [t |-> "absent"]

MalformedFile == [t |-> "malformed"]

JsonFile(v) == [t |-> "json", v |-> v]

SmallWarn == 3

SmallBlock == 5

CkDisabled == Ck(Settings(Bool(FALSE), Undefined, Undefined, Undefined, Undefined))

CkSmall == Ck(Settings(Bool(TRUE), Num(SmallWarn), Num(SmallBlock), Undefined, Undefined))

CkInverted == Ck(Settings(Undefined, Num(SmallBlock), Num(SmallWarn), Undefined, Undefined))

CkZero == Ck(Settings(Undefined, Num(0), Num(0), Undefined, Undefined))

CkCustom ==
  Ck(Settings(Bool(TRUE), Undefined, Undefined,
              Arr(<<"\\.svg$", "[", "legacy/">>), Arr(<<"src/legacy/">>)))

CkWhitelist == Ck(Settings(Undefined, Undefined, Undefined, Str("\\.js$"), Arr(<<"/tmp/">>)))

CkEmpty == [t |-> "object", fileSizeGuard |-> Undefined]

\* negative thresholds, and a pattern list of which no entry compiles
CkNegative == Ck(Settings(Undefined, Num(0 - SmallBlock), Num(0 - SmallWarn), Arr(<<"[", "(">>), Undefined))

\* an empty pattern list
CkEmptyList == Ck(Settings(Undefined, Undefined, Undefined, Arr(<< >>), Undefined))

\* the excludePatterns configure_ck of install.sh writes
INSTALLED_EXCLUDE_PATTERNS ==
  <<"package-lock\\.json$", "pnpm-lock\\.yaml$", "yarn\\.lock$",
    "\\.min\\.(js|css)$", "\\.d\\.ts$", "\\.json$", "\\.yaml$",
    "\\.yml$", "\\.md$", "\\.sh$", "__fixtures__/", "__snapshots__/">>

\* the fileSizeGuard section configure_ck creates when the file has none
InstalledSettings ==
  Settings(Bool(TRUE), Num(120), Num(200), Arr(INSTALLED_EXCLUDE_PATTERNS), Undefined)

\* ~/.claude/.ck.json after an install into a home without one
CkInstalled == Ck(InstalledSettings)

GlobalCkFiles ==
  {AbsentFile, MalformedFile, JsonFile(Null), JsonFile(Num(1)), JsonFile(CkEmpty),
   JsonFile(CkDisabled), JsonFile(CkSmall), JsonFile(CkInverted), JsonFile(CkZero),
   JsonFile(CkCustom), JsonFile(CkWhitelist), JsonFile(CkInstalled),
   JsonFile(CkNegative), JsonFile(CkEmptyList)}

\* <<cwd/.claude/.ck.json, cwd/.ck.json, ~/.claude/.ck.json>>
CkScenarios ==
  {<<AbsentFile, AbsentFile, g>> : g \in GlobalCkFiles}
  \cup {<<MalformedFile, AbsentFile, g>> : g \in {AbsentFile, JsonFile(CkDisabled)}}
  \cup {<<AbsentFile, JsonFile(CkDisabled), g>> : g \in {AbsentFile, JsonFile(CkSmall)}}
  \cup {<<JsonFile(CkSmall), JsonFile(CkDisabled), MalformedFile>>,
        <<JsonFile(CkInverted), AbsentFile, JsonFile(CkCustom)>>,
        <<MalformedFile, AbsentFile, JsonFile(CkSmall)>>}

File(exists, kind, readable, content) ==
  [exists |-> exists, kind |-> kind, readable |-> readable, content |-> content]

MissingFile == File(FALSE, "file", TRUE, "")

TargetFiles ==
  {MissingFile,
   File(TRUE, "file", TRUE, Repeat("x\n", DEFAULT_BLOCK_THRESHOLD - 5) \o "a\na\na\n"),
   File(TRUE, "file", TRUE, "// @file-size-guard: disabled\n" \o Repeat("x\n", SmallBlock)),
   File(TRUE, "file", TRUE, "# @File-Size-Guard:  max-lines=500\n" \o Repeat("x\n", DEFAULT_WARN_THRESHOLD)),
   File(TRUE, "symlink", TRUE, Repeat("x\n", SmallBlock)),
   File(TRUE, "dir", TRUE, ""),
   File(TRUE, "file", FALSE, "x\nx")}

FilePaths == {"/tmp/large.js", "/tmp/large.json", "src\\legacy\\Big.ts", "/w/logo.svg"}

\* paths of the kinds the README lists as excluded by default
ListedPaths == {"/w/a.test.ts", "/w/vite.config.js", "/w/notes.txt", "/w/yarn.lock"}

ResolvedPaths == {ResolveFilePath(Str(p)).v : p \in FilePaths \cup ListedPaths}

\* line counts around which the written contents are drawn
LinePivots == {SmallWarn, SmallBlock, DEFAULT_WARN_THRESHOLD, DEFAULT_BLOCK_THRESHOLD}

\* 'x\n'.repeat(k) has k + 1 newline-delimited segments
Contents ==
  {"", "x"} \cup
  {Repeat("x\n", n - 1) : n \in UNION {(p - LineSpread)..(p + LineSpread) : p \in LinePivots}}

EditPairs ==
  {<<Str("a"), Str("a\nb")>>, <<Str("a\nb\nc"), Str("a")>>,
   <<Str("a"), Str("b")>>, <<Undefined, Undefined>>}

Requests ==
  {Obj(Str("Write"), Input(Str(p), Str(c), Undefined, Undefined)) : p \in FilePaths, c \in Contents}
  \cup {Obj(Str("Write"), Input(Str(p), c, Undefined, Undefined)) :
          p \in {"/tmp/large.js"}, c \in {Undefined, Num(7)}}
  \cup {Obj(Str("Write"), Input(Str(p), Str(Repeat("x\n", DEFAULT_BLOCK_THRESHOLD - 1)), Undefined, Undefined)) :
          p \in ListedPaths}
  \cup {Obj(Str("Edit"), Input(Str(p), Undefined, e[1], e[2])) : p \in FilePaths, e \in EditPairs}
  \cup {Obj(Str("Edit"), InputAll(Str("/tmp/large.js"), e[1], e[2])) :
          e \in {<<Str("a"), Str("a\nb")>>, <<Str("a\nb\nc"), Str("a")>>, <<Str(""), Str("a\nb")>>}}
  \cup {Obj(Str(tn), Input(fp, Str("x"), Str("a"), Str("a\nb"))) :
          tn \in {"Edit", "Write"}, fp \in {Undefined, Str(""), Num(5)}}
  \cup {Obj(Str(tn), Undefined) : tn \in {"Edit", "Write"}}
  \cup {Obj(Str("Read"), Input(Str("/tmp/large.js"), Str(Repeat("x\n", DEFAULT_BLOCK_THRESHOLD)), Undefined, Undefined)),
        Obj(Undefined, Input(Str("/tmp/large.js"), Str(Repeat("x\n", DEFAULT_BLOCK_THRESHOLD)), Undefined, Undefined))}

Stdin(kind, value) == [kind |-> kind, value |-> value]

HookInputs ==
  {Stdin(k, Null) : k \in {"unreadable", "empty", "blank", "malformed"}}
  \cup {Stdin("json", v) : v \in {Null, Num(42)} \cup Requests}

-----------------------------------------------------------------------------
(* install.sh, update.sh, file-size-guard-toggle.sh, file-size-guard-auto-repair.sh *)

\* the command every script registers
HOOK_COMMAND == "node $HOME/.claude/hooks/file-size-guard.cjs"

\* one hook of a PreToolUse entry
Hook(cmd) == [type |-> "command", command |-> cmd]

\* one PreToolUse entry
Entry(matcher, hooks) == [matcher |-> matcher, hooks |-> hooks]

\* settings.hooks.PreToolUse || []; a missing or unparsable file reads as {hooks:{}}
PreToolUse(s) == IF s.t = "json" THEN s.v ELSE << >>

\* a registration that does not look for an existing one
register_hookAlways(s) ==
  LET pre == PreToolUse(s)
      found == {i \in DOMAIN pre : pre[i].matcher = "Edit|Write"}
  IN  IF found = {}
      THEN JsonFile(Append(pre, Entry("Edit|Write", <<Hook(HOOK_COMMAND)>>)))
      ELSE JsonFile([pre EXCEPT ![CHOOSE i \in found : \A j \in found : i <= j].hooks =
                                  Append(@, Hook(HOOK_COMMAND))])

\* register_hook (repair_registration in update.sh): the node program
register_hook(s) ==
  LET pre == PreToolUse(s)
      exists == \E i \in DOMAIN pre : \E j \in DOMAIN pre[i].hooks :
                  pre[i].hooks[j].command = HOOK_COMMAND
      found == {i \in DOMAIN pre : pre[i].matcher = "Edit|Write"}
  IN  IF exists THEN s
      ELSE IF found = {}
      THEN JsonFile(Append(pre, Entry("Edit|Write", <<Hook(HOOK_COMMAND)>>)))
      ELSE JsonFile([pre EXCEPT ![CHOOSE i \in found : \A j \in found : i <= j].hooks =
                                  Append(@, Hook(HOOK_COMMAND))])

\* check_registration: grep -q "file-size-guard.cjs" on the settings file
check_registration(s) ==
  /\ s.t = "json"
  /\ \E i \in DOMAIN s.v : \E j \in DOMAIN s.v[i].hooks :
       Includes(s.v[i].hooks[j].command, "file-size-guard.cjs")

\* ensure_config: an absent configuration file is created as {}
ensure_config(f) == IF f.t = "absent" THEN JsonFile(CkEmpty) ELSE f

\* whether JSON.parse succeeds on the file and gives an object
ParsesToObject(f) == f.t = "json" /\ f.v.t = "object"

\* config.fileSizeGuard = config.fileSizeGuard || {}
SectionOrEmpty(doc) == IF Truthy(doc.fileSizeGuard) THEN doc.fileSizeGuard.v ELSE NoGuardSettings

\* the node program of enable and disable; a file that fails to parse stops
\* the script and stays as it is
SetEnabled(f, b) ==
  IF ParsesToObject(f)
  THEN JsonFile(Ck([SectionOrEmpty(f.v) EXCEPT !.enabled = Bool(b)]))
  ELSE f

\* the node program of repair: enabled is set only where it is undefined
EnableIfUndefined(f) ==
  IF ParsesToObject(f)
  THEN LET section == SectionOrEmpty(f.v)
       IN  JsonFile(Ck(IF section.enabled.t = "undefined"
                       THEN [section EXCEPT !.enabled = Bool(TRUE)] ELSE section))
  ELSE f

\* configure_ck: a file without a fileSizeGuard section gets the installed one
configure_ck(f) ==
  LET c == IF f.t = "json" THEN f.v ELSE CkEmpty
  IN  IF c.t # "object" THEN f
      ELSE IF ~Truthy(c.fileSizeGuard) THEN JsonFile(CkInstalled)
      ELSE f

-----------------------------------------------------------------------------
(* hooks/file-size-guard.cjs *)

NoExit == -1

NoMessage == [kind |-> "none", currentLines |-> 0, estimatedLines |-> 0, threshold |-> 0]

\* the text written by the catch block of main()
ErrorMessage == [kind |-> "error", currentLines |-> 0, estimatedLines |-> 0, threshold |-> 0]

\* the warning text with the estimate and the threshold in each other's place
formatWarningMessageSwapped(path, cur, est, threshold) ==
  [kind |-> "warning", currentLines |-> cur, estimatedLines |-> threshold, threshold |-> est]

\* formatWarningMessage: the figures the warning text reports
formatWarningMessage(path, cur, est, threshold) ==
  [kind |-> "warning", currentLines |-> cur, estimatedLines |-> est, threshold |-> threshold]

\* formatBlockMessage: the figures the block text reports
formatBlockMessage(path, cur, est, threshold) ==
  [kind |-> "block", currentLines |-> cur, estimatedLines |-> est, threshold |-> threshold]

NoConfig ==
  [warnThreshold |-> Undefined, blockThreshold |-> Undefined,
   excludePatterns |-> << >>, whitelistPaths |-> << >>]

\* the search run from the last location back to the first
LoadFromGlobalFirst(files, k) ==
  IF \E j \in k..Len(files) : files[j].t = "json"
  THEN files[CHOOSE j \in k..Len(files) :
               files[j].t = "json" /\ \A i \in (j + 1)..Len(files) : files[i].t # "json"].v
  ELSE [t |-> "object", fileSizeGuard |-> Undefined]

\* the search given up at the first file that fails to parse
LoadFromStopOnError(files, k) ==
  IF \E j \in k..Len(files) : files[j].t # "absent"
  THEN LET first == CHOOSE j \in k..Len(files) :
                      files[j].t # "absent" /\ \A i \in k..(j - 1) : files[i].t = "absent"
       IN  IF files[first].t = "json" THEN files[first].v
           ELSE [t |-> "object", fileSizeGuard |-> Undefined]
  ELSE [t |-> "object", fileSizeGuard |-> Undefined]

RECURSIVE LoadFrom(_, _)
\* the loop of loadCkConfig from search position k on: a missing file and a
\* file that fails to parse both pass on to the next position
LoadFrom(files, k) ==
  IF k > Len(files) THEN [t |-> "object", fileSizeGuard |-> Undefined]
  ELSE IF files[k].t = "json" THEN files[k].v
  ELSE LoadFrom(files, k + 1)

\* the file the file system holds at path p; nothing exists elsewhere
FileAt(p) == IF p \in DOMAIN disk THEN disk[p] ELSE MissingFile

\* loadCkConfig
loadCkConfig(files) == LoadFrom(files, 1)

\* data.tool_input || {}
ToolInput(d) ==
  IF d.t = "object" /\ d.tool_input.t = "object" THEN d.tool_input
  ELSE Input(Undefined, Undefined, Undefined, Undefined)

\* data.tool_name || ''
ToolName(d) ==
  IF d.t = "object" /\ Truthy(d.tool_name) THEN d.tool_name.v ELSE ""

\* process.exit with status 1 where the block status is meant
ExitOne(code, msg) ==
  /\ pc' = "Done"
  /\ exitCode' = IF code = 2 THEN 1 ELSE code
  /\ stderr' = msg

\* an exit after which main() starts over
ExitAndRestart(code, msg) ==
  /\ pc' = "Idle"
  /\ exitCode' = code
  /\ stderr' = msg

\* process.exit(code), with msg written to the diagnostic stream before
Exit(code, msg) ==
  /\ pc' = "Done"
  /\ exitCode' = code
  /\ stderr' = msg

\* a catch block that fails closed
CatchErrorClosed == Exit(2, ErrorMessage)

\* the catch block of main(): report and allow
CatchError == Exit(0, ErrorMessage)

\* a hook that empties the files it reads
ReadOnlyTruncating ==
  /\ disk' = [p \in DOMAIN disk |-> File(disk[p].exists, disk[p].kind, disk[p].readable, "")]
  /\ UNCHANGED <<ckFiles, settings, hookFiles, override, toggled, lastRun>>

\* main() and the functions it calls open files for reading only: a step of
\* the hook leaves the file system as it found it
ReadOnly ==
  UNCHANGED <<ckFiles, disk, settings, hookFiles, override, toggled, lastRun>>

Init ==
  /\ pc = "Idle"
  /\ hookInput = Stdin("empty", Null)
  /\ data = Undefined
  /\ ckFiles \in CkScenarios
  /\ \E f \in TargetFiles : disk = [p \in ResolvedPaths |-> f]
  /\ config = NoConfig
  /\ filePath = Null
  /\ currentLines = 0
  /\ estimatedLines = 0
  /\ exitCode = NoExit
  /\ stderr = NoMessage
  /\ trace = << >>
  /\ override = NoOverride
  /\ settings = register_hook(AbsentFile)
  /\ hookFiles = TRUE
  /\ toggled = "none"
  /\ lastRun = "none"

\* main(), lines 78-90: read stdin and parse it
ReadStdinFrom(inputs) ==
  /\ pc = "Idle"
  /\ \E in \in inputs :
       /\ hookInput' = in
       /\ CASE in.kind = "unreadable" ->
                 CatchError /\ UNCHANGED data
            [] in.kind \in {"empty", "blank", "malformed"} ->
                 Exit(0, NoMessage) /\ UNCHANGED data
            [] OTHER ->
                 /\ data' = in.value
                 /\ pc' = "Parsed"
                 /\ UNCHANGED <<exitCode, stderr>>
  /\ UNCHANGED <<config, filePath, currentLines, estimatedLines, trace>>
  /\ ReadOnly

\* a run on any of the inputs
ReadStdin == ReadStdinFrom(HookInputs)

\* main(), lines 92-102: load the configuration, leave when the guard is disabled
LoadConfig ==
  /\ pc = "Parsed"
  /\ LET ckConfig == loadCkConfig(ckFiles)
     IN  IF ckConfig.t = "null"
         THEN /\ CatchError
              /\ trace' = trace \o <<"loadCkConfig">>
              /\ UNCHANGED config
         ELSE IF GuardSettings(ckConfig).enabled = Bool(FALSE)
         THEN /\ Exit(0, NoMessage)
              /\ trace' = trace \o <<"loadCkConfig">>
              /\ UNCHANGED config
         ELSE /\ config' = getThresholdConfig(ckConfig)
              /\ trace' = trace \o <<"loadCkConfig", "getThresholdConfig">>
              /\ pc' = "Configured"
              /\ UNCHANGED <<exitCode, stderr>>
  /\ UNCHANGED <<hookInput, data, filePath, currentLines, estimatedLines>>
  /\ ReadOnly

\* main(), lines 104-137: dispatch on the tool, resolve the path, estimate
Estimate ==
  /\ pc = "Configured"
  /\ LET toolName == ToolName(data)
         toolInput == ToolInput(data)
         resolved == ResolveFilePath(toolInput.file_path)
     IN  IF data.t = "null"
         THEN CatchError /\ UNCHANGED <<filePath, currentLines, estimatedLines, trace>>
         ELSE IF toolName \notin {"Edit", "Write"}
         THEN Exit(0, NoMessage) /\ UNCHANGED <<filePath, currentLines, estimatedLines, trace>>
         ELSE IF Truthy(toolInput.file_path) /\ toolInput.file_path.t # "string"
         THEN /\ CatchError
              /\ trace' = trace \o <<"resolveFilePath">>
              /\ UNCHANGED <<filePath, currentLines, estimatedLines>>
         ELSE IF resolved.t = "null"
         THEN /\ Exit(0, NoMessage)
              /\ trace' = trace \o <<"resolveFilePath">>
              /\ UNCHANGED <<filePath, currentLines, estimatedLines>>
         ELSE IF toolName = "Edit"
         THEN LET result == estimateLinesAfterEdit(resolved.v, FileAt(resolved.v),
                                                   OrElse(toolInput.old_string, Str("")).v,
                                                   OrElse(toolInput.new_string, Str("")).v,
                                                   FALSE)
              IN  /\ filePath' = resolved
                  /\ currentLines' = result.currentLines
                  /\ estimatedLines' = result.estimatedLines
                  /\ trace' = trace \o <<"resolveFilePath", "estimateLinesAfterEdit", "countLines">>
                  /\ pc' = "Estimated"
                  /\ UNCHANGED <<exitCode, stderr>>
         ELSE LET existing == countLines(resolved.v, FileAt(resolved.v), FALSE)
                  content == OrElse(toolInput.content, Str(""))
              IN  IF content.t # "string"
                  THEN /\ CatchError
                       /\ filePath' = resolved
                       /\ currentLines' = existing.lines
                       /\ trace' = trace \o <<"resolveFilePath", "countLines", "estimateLinesForWrite">>
                       /\ UNCHANGED estimatedLines
                  ELSE /\ filePath' = resolved
                       /\ currentLines' = existing.lines
                       /\ estimatedLines' = estimateLinesForWrite(content.v)
                       /\ trace' = trace \o <<"resolveFilePath", "countLines", "estimateLinesForWrite">>
                       /\ pc' = "Estimated"
                       /\ UNCHANGED <<exitCode, stderr>>
  /\ UNCHANGED <<hookInput, data, config>>
  /\ ReadOnly

\* main(), lines 139-142: leave when the path is excluded
CheckExclusions ==
  /\ pc = "Estimated"
  /\ IF shouldExclude(filePath.v, config.excludePatterns)
     THEN Exit(0, NoMessage)
     ELSE pc' = "Checked" /\ UNCHANGED <<exitCode, stderr>>
  /\ trace' = trace \o <<"shouldExclude">>
  /\ UNCHANGED <<hookInput, data, config, filePath, currentLines, estimatedLines>>
  /\ ReadOnly

\* main(), lines 144-170: compare with the thresholds and leave
CheckThresholds ==
  /\ pc = "Checked"
  /\ LET thresholdResult == checkThreshold(estimatedLines, config)
     IN  IF thresholdResult.status = "block"
         THEN /\ Exit(2, formatBlockMessage(filePath.v, currentLines, estimatedLines,
                                            config.blockThreshold.v))
              /\ trace' = trace \o <<"checkThreshold", "formatBlockMessage">>
         ELSE IF thresholdResult.status = "warn"
         THEN /\ Exit(0, formatWarningMessage(filePath.v, currentLines, estimatedLines,
                                              config.warnThreshold.v))
              /\ trace' = trace \o <<"checkThreshold", "formatWarningMessage">>
         ELSE /\ Exit(0, NoMessage)
              /\ trace' = trace \o <<"checkThreshold">>
  /\ UNCHANGED <<hookInput, data, config, filePath, currentLines, estimatedLines>>
  /\ ReadOnly

Next ==
  \/ ReadStdin
  \/ LoadConfig
  \/ Estimate
  \/ CheckExclusions
  \/ CheckThresholds

Spec == Init /\ [][Next]_vars

-----------------------------------------------------------------------------
(* Vocabulary of the properties *)

Called(fn) == \E i \in DOMAIN trace : trace[i] = fn

Done == pc = "Done"

\* the run passed the tool dispatch with a resolved target path
Resolved == filePath.t = "string"

Rank(status) == CASE status = "ok" -> 0 [] status = "warn" -> 1 [] status = "block" -> 2

\* the status the run reported: by exit status and diagnostic output
ReportedStatus ==
  IF exitCode = 2 /\ stderr.kind = "block" THEN "block"
  ELSE IF exitCode = 0 /\ stderr.kind = "warning" THEN "warn"
  ELSE IF exitCode = 0 /\ stderr.kind = "none" THEN "ok"
  ELSE "other"

\* verdict Allow: exit status 0 without a warning or block message
Allowed == exitCode = 0 /\ stderr.kind \notin {"warning", "block"}

\* line counts over which the classification is compared
LineDomain == (0 - LineSpread - 2)..(DEFAULT_BLOCK_THRESHOLD + LineSpread + 2)

\* the classification as the specification words it
Classify(L, warn, block) ==
  IF L >= block THEN "block" ELSE IF L >= warn THEN "warn" ELSE "ok"

\* the configuration file the search finds: the first location that parses
FoundCk(k) ==
  /\ ckFiles[k].t = "json"
  /\ \A j \in 1..(k - 1) : ckFiles[j].t # "json"

\* the found configuration sets fileSizeGuard.enabled to false
DisabledByConfig ==
  \E k \in DOMAIN ckFiles :
    /\ FoundCk(k)
    /\ ckFiles[k].v.t = "object"
    /\ ckFiles[k].v.fileSizeGuard.t = "object"
    /\ ckFiles[k].v.fileSizeGuard.v.enabled = Bool(FALSE)

\* the found configuration is the JSON text null
NullConfigFound == \E k \in DOMAIN ckFiles : FoundCk(k) /\ ckFiles[k].v.t = "null"

\* the request names Edit or Write
MutatingTool == data.t = "object" /\ Truthy(data.tool_name) /\ data.tool_name.v \in {"Edit", "Write"}

\* file_path as the request carries it
RequestPath ==
  IF data.t = "object" /\ data.tool_input.t = "object" THEN data.tool_input.file_path
  ELSE Undefined

\* content as the request carries it
RequestContent ==
  IF data.t = "object" /\ data.tool_input.t = "object" THEN data.tool_input.content
  ELSE Undefined

\* failures that end the run on the spot: nothing usable on stdin, a request
\* that is no object, or an exception thrown inside main()
HardFailure ==
  \/ hookInput.kind # "json"
  \/ data.t # "object"
  \/ NullConfigFound /\ ~DisabledByConfig
  \/ MutatingTool /\ Truthy(RequestPath) /\ RequestPath.t # "string"
  \/ /\ MutatingTool /\ data.tool_name.v = "Write" /\ Resolved
     /\ Truthy(RequestContent) /\ RequestContent.t # "string"

\* a configuration file was read and did not parse
MalformedConfigRead ==
  \E k \in DOMAIN ckFiles :
    ckFiles[k].t = "malformed" /\ \A j \in 1..(k - 1) : ckFiles[j].t # "json"

\* the found configuration lists an exclusion pattern that does not compile
InvalidPatternConfigured ==
  \E k \in DOMAIN ckFiles :
    /\ FoundCk(k)
    /\ ckFiles[k].v.t = "object"
    /\ ckFiles[k].v.fileSizeGuard.t = "object"
    /\ ckFiles[k].v.fileSizeGuard.v.excludePatterns.t = "array"
    /\ \E i \in DOMAIN ckFiles[k].v.fileSizeGuard.v.excludePatterns.v :
         NewRegExp(ckFiles[k].v.fileSizeGuard.v.excludePatterns.v[i]).t = "null"

\* reading the target file failed
TargetReadError ==
  /\ Resolved
  /\ FileAt(filePath.v).exists
  /\ FileAt(filePath.v).kind # "file" \/ ~FileAt(filePath.v).readable

\* failures the code absorbs and continues after
SoftFailure ==
  /\ hookInput.kind = "json"
  /\ \/ MalformedConfigRead
     \/ InvalidPatternConfigured /\ Called("getThresholdConfig")
     \/ TargetReadError /\ Called("countLines") /\ ~isBinaryFile(filePath.v)

\* the normalized target path matches an active exclusion pattern
PathExcluded ==
  /\ Resolved
  /\ \E k \in DOMAIN config.excludePatterns :
       RegExpTest(config.excludePatterns[k], NormalizeSlashes(filePath.v))

\* the normalized target path contains a configured whitelist entry
PathWhitelisted ==
  /\ Resolved
  /\ \E k \in DOMAIN config.whitelistPaths :
       Includes(NormalizeSlashes(filePath.v), NormalizeSlashes(config.whitelistPaths[k]))

\* the directive the target file carries in its leading bytes
TargetOverride == getFileOverride(FileAt(filePath.v))

-----------------------------------------------------------------------------
(* Properties *)

\* C1: the threshold check classifies the estimated line count L against the
\* thresholds in force (warn, block) as block when L >= block, else warn when
\* L >= warn, else ok, with both boundaries inclusive; the run reports exactly
\* that status, and the same holds of every line count of LineDomain.
C1_Classification ==
  /\ (Done /\ Called("checkThreshold")) =>
       ReportedStatus = Classify(estimatedLines, config.warnThreshold.v, config.blockThreshold.v)
  /\ pc = "Checked" =>
       \A L \in LineDomain :
         checkThreshold(L, config).status
           = Classify(L, config.warnThreshold.v, config.blockThreshold.v)

\* C1 witness: a run whose estimate sits exactly on the warn threshold was
\* warned, not passed silently
C1_Witness ==
  /\ Done /\ Called("checkThreshold")
  /\ estimatedLines = config.warnThreshold.v
  /\ estimatedLines < config.blockThreshold.v
  /\ ReportedStatus = "warn"

\* C2: for the thresholds of any configuration, a larger line count never gets
\* a lower status than a smaller one, in the order ok < warn < block; the
\* status the run reported is compared with that of every other line count.
C2_Monotonic ==
  (Done /\ Called("checkThreshold")) =>
    \A L \in LineDomain :
      /\ L < estimatedLines =>
           Rank(checkThreshold(L, config).status) <= Rank(checkThreshold(estimatedLines, config).status)
      /\ L > estimatedLines =>
           Rank(checkThreshold(estimatedLines, config).status) <= Rank(checkThreshold(L, config).status)
      /\ Rank(checkThreshold(L, config).status) <= Rank(checkThreshold(L + 1, config).status)

\* C2 witness: a run under a configuration whose block threshold lies below
\* its warn threshold, blocked with an estimate between the two
C2_Witness ==
  /\ Done /\ Called("checkThreshold")
  /\ config.blockThreshold.v < config.warnThreshold.v
  /\ estimatedLines >= config.blockThreshold.v
  /\ estimatedLines < config.warnThreshold.v
  /\ ReportedStatus = "block"

\* C3: a run ends with exit status 0 or 2 and no other, has none before it
\* ends, and the status is 2 exactly when the block message was written.
C3_ExitCodes ==
  /\ Done => exitCode \in {0, 2}
  /\ ~Done => exitCode = NoExit
  /\ Done => (exitCode = 2 <=> stderr.kind = "block")
  /\ Done => (stderr.kind = "block" <=>
                (Called("checkThreshold") /\ estimatedLines >= config.blockThreshold.v))

\* C3 witness: a blocked run and its exit status 2
C3_Witness == Done /\ exitCode = 2 /\ stderr.kind = "block" /\ Called("formatBlockMessage")

\* C4 as stated: on every path with an internal failure, absorbed ones
\* included, the run ends with exit status 0.
C4_FailOpenAlways == Done /\ (HardFailure \/ SoftFailure) => exitCode = 0

\* C4 amended: a failure that ends the run (nothing usable on stdin, a request
\* that is no object, a thrown exception) ends it with exit status 0 and no
\* warning or block; exit status 2 comes only from the threshold check on an
\* estimate at or above the block threshold; a run that absorbed a failure
\* gets the status the threshold check gives its estimate.
C4_FailOpen ==
  /\ Done /\ HardFailure => Allowed
  /\ Done /\ stderr.kind = "error" => exitCode = 0
  /\ Done /\ exitCode # 0 =>
       /\ exitCode = 2
       /\ Called("checkThreshold")
       /\ estimatedLines >= config.blockThreshold.v
       /\ ~HardFailure
  /\ Done /\ SoftFailure /\ Called("checkThreshold") =>
       ReportedStatus = Classify(estimatedLines, config.warnThreshold.v, config.blockThreshold.v)

\* C4 witness: an exception thrown after a blocking-size estimate was about to
\* be made (a Write whose content is no string) ended in exit status 0
C4_Witness ==
  /\ Done /\ stderr.kind = "error" /\ exitCode = 0
  /\ Called("estimateLinesForWrite")
  /\ HardFailure

\* C5: a request whose tool is neither Edit nor Write, or whose file_path is
\* missing, ends with verdict Allow without the estimator or any evaluator
\* check having been called and without the target file having been read.
C5_PassThrough ==
  (Done /\ data.t = "object" /\ (~MutatingTool \/ ~Truthy(RequestPath))) =>
    /\ Allowed
    /\ ~Resolved
    /\ \A fn \in {"countLines", "estimateLinesAfterEdit", "estimateLinesForWrite",
                  "shouldExclude", "checkThreshold"} : ~Called(fn)

\* C5 witness: a Read request carrying a blocking-size content was let through
\* under an enabled configuration
C5_Witness ==
  /\ Done /\ data.t = "object" /\ Truthy(data.tool_name) /\ data.tool_name.v = "Read"
  /\ Called("getThresholdConfig")
  /\ exitCode = 0

\* C6: when the normalized target path matches an active exclusion pattern
\* the run ends with verdict Allow whatever the estimate and the thresholds,
\* and the threshold check is not reached.
C6_ExcludedAllowed ==
  (Done /\ PathExcluded) => (Allowed /\ ~Called("checkThreshold"))

\* C6 witness: a path matched only after backslash normalisation, with an
\* estimate at the block threshold, was allowed
C6_Witness ==
  /\ Done /\ PathExcluded /\ Called("shouldExclude")
  /\ Includes(filePath.v, "\\")
  /\ estimatedLines >= config.blockThreshold.v
  /\ exitCode = 0

\* C7: when the normalized target path contains a configured whitelistPaths
\* entry, an Edit or Write on it ends with exit status 0 whatever the estimate.
C7_WhitelistedAllowed ==
  (Done /\ Called("shouldExclude") /\ PathWhitelisted) => exitCode = 0

\* C8: when the target file carries the directive "@file-size-guard: disabled"
\* in its leading bytes, an Edit or Write on it ends with exit status 0.
C8_DisabledDirectiveAllowed ==
  (Done /\ Called("shouldExclude") /\ TargetOverride.kind = "disabled") => exitCode = 0

\* C9: when the target file carries the directive max-lines=N, the threshold
\* check blocks exactly when the estimate is at least N and warns exactly when
\* the estimate is at least the configured warn threshold and below N.
C9_MaxLinesDirective ==
  (Done /\ Called("checkThreshold") /\ TargetOverride.kind = "maxLines") =>
    /\ ReportedStatus = "block" <=> estimatedLines >= TargetOverride.maxLines
    /\ ReportedStatus = "warn" <=>
         (config.warnThreshold.v <= estimatedLines /\ estimatedLines < TargetOverride.maxLines)

\* C10: when the configuration found sets fileSizeGuard.enabled to false, every
\* request read from stdin ends with exit status 0, nothing on the diagnostic
\* stream and nothing but the configuration loaded; when enabled is absent or
\* true the run goes on to build the thresholds and dispatch on the tool.
C10_DisabledByConfig ==
  /\ (Done /\ hookInput.kind = "json" /\ DisabledByConfig) =>
       (exitCode = 0 /\ stderr = NoMessage /\ trace = <<"loadCkConfig">>)
  /\ (Done /\ hookInput.kind = "json" /\ ~DisabledByConfig /\ ~NullConfigFound) =>
       Called("getThresholdConfig")
  /\ (Done /\ ReportedStatus \in {"warn", "block"}) => ~DisabledByConfig

\* C10 witness: a Write of a blocking-size content to a path that is not
\* excluded ended silently with exit status 0 under a disabled configuration
C10_Witness ==
  /\ Done /\ DisabledByConfig
  /\ MutatingTool /\ data.tool_name.v = "Write"
  /\ RequestPath = Str("/tmp/large.js")
  /\ RequestContent.t = "string"
  /\ estimateLinesForWrite(RequestContent.v) >= DEFAULT_BLOCK_THRESHOLD
  /\ exitCode = 0 /\ stderr = NoMessage

\* position of the first call of fn in the run, 0 when it was never called
FirstCall(fn) ==
  IF Called(fn) THEN CHOOSE i \in DOMAIN trace : trace[i] = fn /\ \A j \in 1..(i - 1) : trace[j] # fn
  ELSE 0

\* the run estimated the line count, by either estimator
EstimateCall == Max(FirstCall("estimateLinesAfterEdit"), FirstCall("estimateLinesForWrite"))

\* C11 as stated: a run that reaches the threshold check went through the steps
\* resolve path, estimate lines, exclusion check, whitelist check, override
\* check, threshold check in that order, and a run whose path is excluded runs
\* no whitelist check, no override check and no threshold check.
C11_StepOrder ==
  /\ (Done /\ Called("checkThreshold")) =>
       /\ 0 < FirstCall("resolveFilePath")
       /\ FirstCall("resolveFilePath") < EstimateCall
       /\ EstimateCall < FirstCall("shouldExclude")
       /\ FirstCall("shouldExclude") < FirstCall("isWhitelisted")
       /\ FirstCall("isWhitelisted") < FirstCall("getFileOverride")
       /\ FirstCall("getFileOverride") < FirstCall("checkThreshold")
  /\ (Done /\ Called("shouldExclude") /\ PathExcluded) =>
       /\ ~Called("isWhitelisted")
       /\ ~Called("getFileOverride")
       /\ ~Called("checkThreshold")

\* the configuration getThresholdConfig builds when no setting is configured
BuiltInDefaults ==
  [warnThreshold |-> Num(DEFAULT_WARN_THRESHOLD), blockThreshold |-> Num(DEFAULT_BLOCK_THRESHOLD),
   excludePatterns |-> DEFAULT_EXCLUDE_PATTERNS, whitelistPaths |-> << >>]

\* the fileSizeGuard section of a configuration file, empty when it has none
GuardOf(ck) ==
  IF ck.t = "object" /\ ck.fileSizeGuard.t = "object" THEN ck.fileSizeGuard.v
  ELSE NoGuardSettings

\* the settings one configuration file supplies on its own, each setting it
\* leaves out taking its built-in default
SettingsOf(ck) ==
  LET g == GuardOf(ck)
      own == getThresholdConfig([t |-> "object", fileSizeGuard |-> [t |-> "object", v |-> g]])
  IN  [warnThreshold |-> IF Truthy(g.warnThreshold) THEN g.warnThreshold
                         ELSE BuiltInDefaults.warnThreshold,
       blockThreshold |-> IF Truthy(g.blockThreshold) THEN g.blockThreshold
                          ELSE BuiltInDefaults.blockThreshold,
       excludePatterns |-> own.excludePatterns,
       whitelistPaths |-> IF g.whitelistPaths.t = "array" THEN g.whitelistPaths.v ELSE << >>]

\* a configuration file exists at search location k
ExistsCk(k) == ckFiles[k].t # "absent"

\* C12: the configuration is searched at cwd/.claude/.ck.json, then cwd/.ck.json,
\* then ~/.claude/.ck.json; when the first file that exists holds a configuration,
\* that file alone supplies every setting (the enabled switch, both thresholds,
\* the exclusions, the whitelist), whatever the later locations hold, and when
\* no file exists the built-in defaults apply: enabled, 120, 200, the default
\* exclusions, an empty whitelist.
C12_FirstConfigWins ==
  (Called("loadCkConfig") /\ ~NullConfigFound) =>
    /\ \A k \in DOMAIN ckFiles :
         (ckFiles[k].t = "json" /\ \A j \in 1..(k - 1) : ~ExistsCk(j)) =>
           /\ Called("getThresholdConfig") <=>
                GuardOf(ckFiles[k].v).enabled # Bool(FALSE)
           /\ Called("getThresholdConfig") => config = SettingsOf(ckFiles[k].v)
    /\ (\A k \in DOMAIN ckFiles : ~ExistsCk(k)) =>
         /\ Called("getThresholdConfig")
         /\ config = BuiltInDefaults

\* C12 witness: a run configured by the project file's thresholds alone, the
\* user-level file's exclusions and whitelist left out
C12_Witness ==
  /\ Called("getThresholdConfig")
  /\ ckFiles[1].t = "json" /\ ckFiles[3].t = "json"
  /\ GuardOf(ckFiles[3].v).whitelistPaths.t = "array"
  /\ config.whitelistPaths = << >>
  /\ config.excludePatterns = DEFAULT_EXCLUDE_PATTERNS
  /\ config.warnThreshold = GuardOf(ckFiles[1].v).warnThreshold

\* C13 as stated: a run that read a configuration file that does not parse is
\* evaluated with the built-in defaults, whatever the other locations hold.
C13_MalformedGivesDefaults ==
  (MalformedConfigRead /\ Called("loadCkConfig")) =>
    /\ Called("getThresholdConfig")
    /\ config = BuiltInDefaults

\* C13: a configuration file that does not parse is passed over and the search
\* goes on to the next location: the run takes every setting from the first
\* later file that parses, and the built-in defaults only when no location
\* holds one.
C13_MalformedSkipped ==
  (MalformedConfigRead /\ Called("loadCkConfig") /\ ~NullConfigFound) =>
    /\ \A k \in DOMAIN ckFiles :
         FoundCk(k) =>
           /\ Called("getThresholdConfig") <=> GuardOf(ckFiles[k].v).enabled # Bool(FALSE)
           /\ Called("getThresholdConfig") => config = SettingsOf(ckFiles[k].v)
    /\ (\A k \in DOMAIN ckFiles : ~FoundCk(k)) =>
         /\ Called("getThresholdConfig")
         /\ config = BuiltInDefaults

\* C13 witness: the project file does not parse and the run was blocked at the
\* block threshold the user-level file sets
C13_Witness ==
  /\ Done /\ MalformedConfigRead
  /\ ckFiles[1].t = "malformed" /\ FoundCk(3)
  /\ config.blockThreshold = Num(SmallBlock)
  /\ estimatedLines = SmallBlock
  /\ exitCode = 2 /\ stderr.kind = "block"

\* the exclusion pattern sources the found configuration lists, none when it
\* lists no array
ConfiguredPatterns ==
  IF \E k \in DOMAIN ckFiles : FoundCk(k) /\ GuardOf(ckFiles[k].v).excludePatterns.t = "array"
  THEN GuardOf(ckFiles[CHOOSE k \in DOMAIN ckFiles : FoundCk(k)].v).excludePatterns.v
  ELSE << >>

\* positions of the configured pattern sources that compile
ValidPatterns == {i \in DOMAIN ConfiguredPatterns : NewRegExp(ConfiguredPatterns[i]).t # "null"}

\* C14: when the configured excludePatterns has entries that do not compile,
\* building the configuration does not throw (the run gets its configuration
\* and goes on), exactly those entries are dropped and every entry that
\* compiles is active, in the order configured.
C14_InvalidPatternsDropped ==
  (Called("loadCkConfig") /\ InvalidPatternConfigured /\ ~DisabledByConfig) =>
    /\ Called("getThresholdConfig")
    /\ ValidPatterns # {} =>
         /\ Len(config.excludePatterns) = Cardinality(ValidPatterns)
         /\ \A i \in ValidPatterns :
              config.excludePatterns[Cardinality({j \in ValidPatterns : j <= i})]
                = NewRegExp(ConfiguredPatterns[i]).v

\* C14 witness: a list whose middle entry does not compile, and a run excluded
\* by the entry after it
C14_Witness ==
  /\ Done /\ Called("shouldExclude") /\ ~Called("checkThreshold")
  /\ Len(ConfiguredPatterns) = 3
  /\ ValidPatterns = {1, 3}
  /\ Len(config.excludePatterns) = 2
  /\ RegExpTest(config.excludePatterns[2], NormalizeSlashes(filePath.v))
  /\ ~RegExpTest(config.excludePatterns[1], NormalizeSlashes(filePath.v))

\* the request asks for every occurrence to be replaced
ReplaceAllRequested ==
  data.t = "object" /\ data.tool_input.t = "object" /\ data.tool_input.replace_all = Bool(TRUE)

\* search text and replacement text as the Edit request carries them
RequestOld ==
  IF data.t = "object" /\ data.tool_input.t = "object" /\ data.tool_input.old_string.t = "string"
  THEN data.tool_input.old_string.v ELSE ""

RequestNew ==
  IF data.t = "object" /\ data.tool_input.t = "object" /\ data.tool_input.new_string.t = "string"
  THEN data.tool_input.new_string.v ELSE ""

\* number of newline-delimited segments of a text
LineSpan(s) == Cardinality({i \in 1..Len(s) : CharAt(s, i) = "\n"}) + 1

\* the text of the target file, empty when it has none to read
TargetText ==
  IF ~Resolved THEN ""
  ELSE LET f == FileAt(filePath.v)
       IN  IF f.exists /\ f.kind = "file" /\ f.readable /\ ~isBinaryFile(filePath.v)
           THEN f.content ELSE ""

\* occurrences of the search text in the target file, counted by splitting
TargetOccurrences == IF TargetText = "" THEN 0 ELSE Occurrences(TargetText, RequestOld)

\* C15 as stated: for an Edit request with replace_all set, the estimate is
\* currentLines + (newLineSpan - oldLineSpan) * max(occurrences, 1), occurrences
\* being the number of occurrences of the search text in the target file.
C15_ReplaceAllDelta ==
  (Called("estimateLinesAfterEdit") /\ ReplaceAllRequested) =>
    estimatedLines
      = currentLines + (LineSpan(RequestNew) - LineSpan(RequestOld)) * Max(TargetOccurrences, 1)

\* C16: for an Edit request without replace_all, the estimate is
\* currentLines + newLineSpan - oldLineSpan however often the search text occurs
\* in the target file, a span being the number of newline-delimited segments
\* (1 for the empty text); equal spans leave the estimate at currentLines.
C16_SingleReplacementDelta ==
  (Called("estimateLinesAfterEdit") /\ ~ReplaceAllRequested) =>
    /\ estimatedLines = currentLines + LineSpan(RequestNew) - LineSpan(RequestOld)
    /\ LineSpan(RequestNew) = LineSpan(RequestOld) => estimatedLines = currentLines

\* C16 witness: a single replacement of a text that occurs three times in the
\* target file, the estimate one line above the current count
C16_Witness ==
  /\ Called("estimateLinesAfterEdit") /\ ~ReplaceAllRequested
  /\ TargetOccurrences = 3
  /\ LineSpan(RequestOld) = 1 /\ LineSpan(RequestNew) = 2
  /\ currentLines = DEFAULT_BLOCK_THRESHOLD - 1
  /\ estimatedLines = currentLines + 1

\* the tool the request names, "" when it names none
RequestTool == IF MutatingTool THEN data.tool_name.v ELSE ""

\* C17 as stated: the estimated line count is never below 0, whatever the
\* request and the state of the target file.
C17_NonNegative == estimatedLines >= 0

\* C17: the estimate is an integer that is not floored at 0. For a Write it is
\* never below 0; for an Edit it is currentLines + newLineSpan - oldLineSpan, so
\* at least currentLines + 1 - oldLineSpan, and it is not below 0 unless the
\* search text spans more lines than currentLines + newLineSpan.
C17_EstimateLowerBound ==
  /\ currentLines >= 0
  /\ (Called("estimateLinesForWrite") /\ RequestTool = "Write") => estimatedLines >= 0
  /\ (Called("estimateLinesAfterEdit") /\ RequestTool = "Edit") =>
       /\ estimatedLines >= currentLines + 1 - LineSpan(RequestOld)
       /\ LineSpan(RequestOld) <= currentLines + LineSpan(RequestNew) => estimatedLines >= 0

\* C17 witness: an Edit of a missing file whose search text spans three lines
\* and whose replacement spans one, estimated at -2 lines and allowed
C17_Witness ==
  /\ Done /\ Called("checkThreshold") /\ RequestTool = "Edit"
  /\ ~FileAt(filePath.v).exists
  /\ LineSpan(RequestOld) = 3 /\ LineSpan(RequestNew) = 1
  /\ currentLines = 0
  /\ estimatedLines = 0 - 2
  /\ exitCode = 0

\* the text a Write request carries, empty when it carries none
RequestText == IF RequestContent.t = "string" THEN RequestContent.v ELSE ""

\* C19: for a Write request the estimate is the number of newline-delimited
\* segments of the new content, and 0 when the content is empty or absent; it
\* is the same for every state of the target file, whose line count is reported
\* as currentLines only.
C19_WriteEstimate ==
  (/\ Called("estimateLinesForWrite") /\ RequestTool = "Write"
   /\ ~Truthy(RequestContent) \/ RequestContent.t = "string") =>
    /\ estimatedLines = IF RequestText = "" THEN 0 ELSE LineSpan(RequestText)
    /\ currentLines = IF TargetText = "" THEN 0 ELSE LineSpan(TargetText)

\* C19 witness: a one-line Write over a target of 199 lines, estimated at one
\* line and allowed without a message
C19_Witness ==
  /\ Done /\ Called("checkThreshold") /\ RequestTool = "Write"
  /\ RequestContent = Str("x")
  /\ currentLines = DEFAULT_BLOCK_THRESHOLD - 1
  /\ estimatedLines = 1
  /\ exitCode = 0 /\ stderr = NoMessage

\* the thresholds in force are the built-in ones
DefaultThresholds ==
  /\ config.warnThreshold = Num(DEFAULT_WARN_THRESHOLD)
  /\ config.blockThreshold = Num(DEFAULT_BLOCK_THRESHOLD)

\* C20: under the default thresholds 120 and 200, a Write to a path that is not
\* excluded ends with a warning message exactly when 120 <= estimate < 200,
\* with a block message exactly when estimate >= 200, and with no message when
\* estimate < 120; the warning reports threshold 120 with exit status 0, the
\* block message threshold 200 with exit status 2, both with the current and
\* the estimated line count of the run.
C20_MessageMatchesVerdict ==
  (/\ Done /\ RequestTool = "Write" /\ Called("shouldExclude")
   /\ DefaultThresholds /\ ~PathExcluded) =>
    /\ stderr.kind = "warning" <=>
         (DEFAULT_WARN_THRESHOLD <= estimatedLines /\ estimatedLines < DEFAULT_BLOCK_THRESHOLD)
    /\ stderr.kind = "block" <=> estimatedLines >= DEFAULT_BLOCK_THRESHOLD
    /\ estimatedLines < DEFAULT_WARN_THRESHOLD => (stderr = NoMessage /\ exitCode = 0)
    /\ stderr.kind = "warning" =>
         /\ exitCode = 0
         /\ stderr = [kind |-> "warning", currentLines |-> currentLines,
                      estimatedLines |-> estimatedLines, threshold |-> DEFAULT_WARN_THRESHOLD]
    /\ stderr.kind = "block" =>
         /\ exitCode = 2
         /\ stderr = [kind |-> "block", currentLines |-> currentLines,
                      estimatedLines |-> estimatedLines, threshold |-> DEFAULT_BLOCK_THRESHOLD]

\* C20 witness: a Write of 121 lines over a target of 199 lines under the
\* default thresholds, warned with threshold 120 and let through
C20_Witness ==
  /\ Done /\ RequestTool = "Write" /\ Called("formatWarningMessage")
  /\ DefaultThresholds /\ ~PathExcluded
  /\ estimatedLines = DEFAULT_WARN_THRESHOLD + 1
  /\ currentLines = DEFAULT_BLOCK_THRESHOLD - 1
  /\ stderr.kind = "warning" /\ stderr.threshold = DEFAULT_WARN_THRESHOLD
  /\ exitCode = 0

\* README, Default Exclusions: the kinds of path listed as excluded with no
\* configuration needed
README_EXCLUSIONS ==
  <<Pat("", {"package-lock.json", "yarn.lock", "pnpm-lock.yaml", "Cargo.lock"}),
    Pat("", {".min.js", ".d.ts"}), Pat(".generated.", {}), Pat(".bundle.", {}),
    Pat("", {".config.js", "tsconfig.json"}), Pat(".eslintrc", {}), Pat(".prettierrc", {}),
    Pat("", {".json", ".yaml", ".yml", ".toml", ".xml"}),
    Pat("", {".md", ".mdx", ".rst", ".txt"}),
    Pat("", {".test.ts", ".spec.js", "_test.go"}), Pat("test_", {".py"}),
    Pat("__fixtures__/", {}), Pat("__snapshots__/", {}),
    Pat("", {".sh"})>>

\* the target path is of a kind the README lists as excluded by default
ListedAsExcluded ==
  /\ Resolved
  /\ \E k \in DOMAIN README_EXCLUSIONS :
       RegExpTest(README_EXCLUSIONS[k], NormalizeSlashes(filePath.v))

\* the configuration files as install.sh leaves them in a home that had none
FreshInstall == ckFiles = <<AbsentFile, AbsentFile, JsonFile(CkInstalled)>>

\* C21 as stated: after a fresh install and with no further configuration, a
\* Write of any size to a path of a kind the README lists as excluded by
\* default (test file, lock file, .toml/.xml/.txt, *.config.js, ...) is allowed
\* with exit status 0 and no message.
C21_FreshInstallExclusions ==
  (Done /\ FreshInstall /\ RequestTool = "Write" /\ ListedAsExcluded) =>
    (exitCode = 0 /\ stderr = NoMessage)

\* the snapshot countLines takes of the resolved target
TargetSnapshot(returnContent) == countLines(filePath.v, FileAt(filePath.v), returnContent)

\* the resolved target exists and is no regular file
TargetNotRegular == Resolved /\ FileAt(filePath.v).exists /\ FileAt(filePath.v).kind # "file"

Positions == {"Idle", "Parsed", "Configured", "Estimated", "Checked", "Done"}

\* main() moving on from the position it is at; every step of Next is one
Advance == ~Done /\ pc' \in Positions /\ pc' # pc

\* the invocation with main() run to its end: the code is a straight line of
\* synchronous calls without a loop that waits, so a process that has not
\* exited moves on
FairSpec == Spec /\ WF_pc(Advance)

\* the phase of the run: Idle until the target path is resolved, Resolved until
\* the first check has run, Evaluated until the process exits, Done after
Phase ==
  IF Done THEN "Done"
  ELSE IF Called("shouldExclude") THEN "Evaluated"
  ELSE IF Resolved THEN "Resolved"
  ELSE "Idle"

PhaseRank(p) ==
  CASE p = "Idle" -> 0 [] p = "Resolved" -> 1 [] p = "Evaluated" -> 2 [] p = "Done" -> 3

\* C24: every invocation terminates: it reaches Done, and stays there with the
\* one verdict it gave; a step never starts from Done, never leads back to an
\* earlier phase, and leads from Idle to Resolved or Done, from Resolved to
\* Evaluated or through the first check to Done, from Evaluated to Done; no
\* step writes a file the next invocation would read.
C24_Terminates ==
  /\ <>Done
  /\ [][/\ ~Done /\ exitCode = NoExit
        /\ PhaseRank(Phase') >= PhaseRank(Phase)
        /\ Phase = "Idle" => Phase' \in {"Idle", "Resolved", "Done"}
        /\ Phase = "Resolved" =>
             (Phase' = "Evaluated" \/ (Phase' = "Done" /\ Called("shouldExclude")'))
        /\ Phase = "Evaluated" => Phase' = "Done"
        /\ Done' <=> exitCode' # NoExit
        /\ ckFiles' = ckFiles /\ disk' = disk]_vars

\* C24 witness: a run that went through every phase and ended blocked
C24_Witness ==
  /\ Done /\ Resolved /\ Called("shouldExclude") /\ Called("checkThreshold")
  /\ exitCode = 2

-----------------------------------------------------------------------------
(* getFileOverride on its own: files with a directive at chosen offsets *)

\* a directive as written in a file: its text, the offset of its "@" in the
\* text, and what it asks for
Directive(text, lead, meaning) == [text |-> text, lead |-> lead, meaning |-> meaning]

NoDirective == Directive("", 0, NoOverride)

Directives ==
  {Directive("// @file-size-guard: disabled", 3, [kind |-> "disabled", maxLines |-> 0]),
   Directive("# @File-Size-Guard:  max-lines=500", 2, [kind |-> "maxLines", maxLines |-> 500]),
   Directive("// @file-size-guard: max-lines=0", 3, [kind |-> "maxLines", maxLines |-> 0]),
   Directive("/* @FILE-SIZE-GUARD:disabled", 3, [kind |-> "disabled", maxLines |-> 0]),
   Directive("// @file-size-guard: max-lines=", 3, NoOverride),
   Directive("// @file-size-guard: off", 3, NoOverride),
   NoDirective}

\* what follows the first directive: nothing, a second directive, plain text
Tails ==
  {NoDirective,
   Directive("\n// @file-size-guard: max-lines=7", 4, [kind |-> "maxLines", maxLines |-> 7]),
   Directive("\nx\n", 0, NoOverride)}

\* lengths of the text before the first directive: at the top of the file,
\* ending at the end of the window, across it, and beyond it
PadLengths ==
  {0, 1, OVERRIDE_WINDOW - 40, OVERRIDE_WINDOW - 29, OVERRIDE_WINDOW - 3,
   OVERRIDE_WINDOW, OVERRIDE_WINDOW + 1}

Layout(n, d, tail) == Repeat("x", n) \o d.text \o tail.text

OverrideFiles ==
  {File(TRUE, "file", TRUE, Layout(n, d, tail)) : n \in PadLengths, d \in Directives, tail \in Tails}
  \cup {MissingFile,
        File(TRUE, "symlink", TRUE, Layout(0, NoDirective, NoDirective) \o "// @file-size-guard: disabled"),
        File(TRUE, "dir", TRUE, ""),
        File(TRUE, "file", FALSE, "// @file-size-guard: disabled")}

OverridePath == "/tmp/large.js"

OverrideInit ==
  /\ pc = "Idle"
  /\ hookInput = Stdin("empty", Null)
  /\ data = Undefined
  /\ ckFiles = <<AbsentFile, AbsentFile, AbsentFile>>
  /\ \E f \in OverrideFiles : disk = [p \in ResolvedPaths |-> f]
  /\ config = NoConfig
  /\ filePath = Str(OverridePath)
  /\ currentLines = 0
  /\ estimatedLines = 0
  /\ exitCode = NoExit
  /\ stderr = NoMessage
  /\ trace = << >>
  /\ override = NoOverride
  /\ settings = register_hook(AbsentFile)
  /\ hookFiles = TRUE
  /\ toggled = "none"
  /\ lastRun = "none"

\* one call of getFileOverride(filePath)
ReadOverride ==
  /\ pc = "Idle"
  /\ override' = getFileOverride(FileAt(filePath.v))
  /\ trace' = trace \o <<"getFileOverride">>
  /\ pc' = "Done"
  /\ UNCHANGED <<hookInput, data, ckFiles, disk, config, filePath, currentLines,
                 estimatedLines, exitCode, stderr, settings, hookFiles, toggled, lastRun>>

OverrideNext == ReadOverride

OverrideSpec == OverrideInit /\ [][OverrideNext]_vars

\* the file getFileOverride was called on is laid out as n, d, tail
LaidOut(n, d, tail) ==
  LET f == FileAt(filePath.v)
  IN  f.exists /\ f.kind = "file" /\ f.readable /\ f.content = Layout(n, d, tail)

\* C25: getFileOverride reads the first 4096 bytes only.  A directive that
\* lies wholly inside the window is recognized, and the first one decides
\* (disabled or max-lines=N) whatever follows it; a directive that starts
\* at or beyond the end of the window gives no override; a file without a
\* well-formed directive, a missing file, a file that is not regular, an
\* empty file and an unreadable file give no override, and no call raises.
C25_OverrideWindow ==
  Called("getFileOverride") =>
    /\ \A n \in PadLengths, d \in Directives, tail \in Tails :
         LaidOut(n, d, tail) =>
           /\ (d.meaning # NoOverride /\ n + Len(d.text) <= OVERRIDE_WINDOW)
                => override = d.meaning
           /\ (d.meaning = NoOverride /\ n + Len(d.text) + Len(tail.text) <= OVERRIDE_WINDOW)
                => override = tail.meaning
           /\ (d # NoDirective /\ n + d.lead >= OVERRIDE_WINDOW) => override = NoOverride
           /\ (d = NoDirective /\ n + tail.lead >= OVERRIDE_WINDOW) => override = NoOverride
    /\ LET f == FileAt(filePath.v)
       IN  (~f.exists \/ f.kind # "file" \/ ~f.readable \/ f.content = "")
             => override = NoOverride
    /\ pc = "Done" /\ exitCode = NoExit /\ stderr = NoMessage

\* a directive that ends exactly at the end of the window decided, with a
\* second directive behind it
C25_Witness ==
  /\ Called("getFileOverride")
  /\ \E tail \in Tails :
       /\ tail.meaning.kind = "maxLines"
       /\ LaidOut(OVERRIDE_WINDOW - 29,
                  Directive("// @file-size-guard: disabled", 3, [kind |-> "disabled", maxLines |-> 0]),
                  tail)
  /\ override.kind = "disabled"

\* the fileSizeGuard section of the configuration the search finds, empty
\* when it finds none
FoundSettings ==
  IF \E k \in DOMAIN ckFiles : FoundCk(k)
  THEN GuardOf(ckFiles[CHOOSE k \in DOMAIN ckFiles : FoundCk(k)].v)
  ELSE NoGuardSettings

\* the run left at the exclusion check
ExcludedExit ==
  /\ Done /\ Called("shouldExclude") /\ ~Called("checkThreshold")
  /\ exitCode = 0 /\ stderr = NoMessage

\* the normalized target path matches a built-in exclusion pattern
BuiltInMatch ==
  \E k \in DOMAIN DEFAULT_EXCLUDE_PATTERNS :
    RegExpTest(DEFAULT_EXCLUDE_PATTERNS[k], NormalizeSlashes(filePath.v))

\* the normalized target path matches a configured pattern that compiles
CustomMatch ==
  \E i \in ValidPatterns :
    RegExpTest(NewRegExp(ConfiguredPatterns[i]).v, NormalizeSlashes(filePath.v))

\* C26: the active exclusion set is the custom one or the built-in one, never
\* both.  When the configured excludePatterns is an array with an entry that
\* compiles, the active patterns are the compiled custom entries only and a
\* run is excluded exactly when one of them matches, whatever the built-in
\* patterns say; when it is absent, not an array, empty, or without an entry
\* that compiles, the active set is exactly the built-in one.
C26_CustomOrBuiltIn ==
  Called("getThresholdConfig") =>
    /\ ValidPatterns # {} =>
         /\ \A k \in DOMAIN config.excludePatterns :
              \E i \in ValidPatterns :
                config.excludePatterns[k] = NewRegExp(ConfiguredPatterns[i]).v
         /\ Called("shouldExclude") => (ExcludedExit <=> CustomMatch)
    /\ ValidPatterns = {} =>
         /\ config.excludePatterns = DEFAULT_EXCLUDE_PATTERNS
         /\ Called("shouldExclude") => (ExcludedExit <=> BuiltInMatch)

\* C26 witness: under a custom list, a path the built-in patterns exclude was
\* taken to the threshold check and blocked
C26_Witness ==
  /\ Done /\ Called("checkThreshold")
  /\ ValidPatterns # {}
  /\ BuiltInMatch /\ ~CustomMatch
  /\ exitCode = 2

\* a configured threshold, with absent and 0 replaced by the default
Effective(x, dflt) == IF x.t = "number" /\ x.v # 0 THEN x.v ELSE dflt

\* C27: a configured warnThreshold or blockThreshold that is absent or 0
\* counts as not configured and the default (120 / 200) takes its place, when
\* the configuration is built and again inside the threshold check; every
\* other configured integer, a negative one and a block value below the warn
\* value included, is used as given.  No configuration makes the block
\* threshold in force 0.
C27_ThresholdDefaults ==
  /\ Called("getThresholdConfig") =>
       /\ config.warnThreshold
            = Num(Effective(FoundSettings.warnThreshold, DEFAULT_WARN_THRESHOLD))
       /\ config.blockThreshold
            = Num(Effective(FoundSettings.blockThreshold, DEFAULT_BLOCK_THRESHOLD))
       /\ config.blockThreshold.v # 0
  /\ (Done /\ Called("checkThreshold")) =>
       ReportedStatus
         = Classify(estimatedLines,
                    Effective(FoundSettings.warnThreshold, DEFAULT_WARN_THRESHOLD),
                    Effective(FoundSettings.blockThreshold, DEFAULT_BLOCK_THRESHOLD))
  /\ pc = "Checked" =>
       \A w \in {Undefined, Num(0)}, b \in {Undefined, Num(0)} :
         \A L \in {0, DEFAULT_WARN_THRESHOLD - 1, DEFAULT_WARN_THRESHOLD,
                   DEFAULT_BLOCK_THRESHOLD - 1, DEFAULT_BLOCK_THRESHOLD} :
           checkThreshold(L, [config EXCEPT !.warnThreshold = w, !.blockThreshold = b]).status
             = Classify(L, DEFAULT_WARN_THRESHOLD, DEFAULT_BLOCK_THRESHOLD)

\* C27 witness: both thresholds configured as 0, and a write of exactly 200
\* lines blocked at the default threshold
C27_Witness ==
  /\ Done /\ Called("checkThreshold")
  /\ FoundSettings.warnThreshold = Num(0) /\ FoundSettings.blockThreshold = Num(0)
  /\ estimatedLines = DEFAULT_BLOCK_THRESHOLD
  /\ config.blockThreshold = Num(DEFAULT_BLOCK_THRESHOLD)
  /\ ReportedStatus = "block"

-----------------------------------------------------------------------------
(* The maintenance scripts run between hook invocations *)

\* settings.json as the scripts may find it
SettingsFiles ==
  {AbsentFile, MalformedFile, JsonFile(<< >>),
   JsonFile(<<Entry("Bash", <<Hook("echo bash")>>)>>),
   JsonFile(<<Entry("Bash", <<Hook("echo bash")>>),
              Entry("Edit|Write", <<Hook("prettier --check")>>)>>),
   JsonFile(<<Entry("Write", <<Hook("echo write"), Hook(HOOK_COMMAND)>>)>>)}

\* <<cwd/.claude/.ck.json, cwd/.ck.json, ~/.claude/.ck.json>> as the scripts may find them
ScriptCkScenarios ==
  {<<p, AbsentFile, g>> :
     p \in {AbsentFile, JsonFile(CkEmpty)},
     g \in {AbsentFile, MalformedFile, JsonFile(CkEmpty), JsonFile(CkSmall)}}

\* the request of the hook invocations that follow the scripts: 200 lines
ScriptedInputs ==
  {Stdin("json", Obj(Str("Write"),
                     Input(Str("/tmp/large.js"),
                           Str(Repeat("x\n", DEFAULT_BLOCK_THRESHOLD - 1)), Undefined, Undefined)))}

ScriptsInit ==
  /\ pc = "Idle"
  /\ hookInput = Stdin("empty", Null)
  /\ data = Undefined
  /\ ckFiles \in ScriptCkScenarios
  /\ disk = [p \in ResolvedPaths |-> MissingFile]
  /\ config = NoConfig
  /\ filePath = Null
  /\ currentLines = 0
  /\ estimatedLines = 0
  /\ exitCode = NoExit
  /\ stderr = NoMessage
  /\ trace = << >>
  /\ override = NoOverride
  /\ settings \in SettingsFiles
  /\ hookFiles \in BOOLEAN
  /\ toggled = "none"
  /\ lastRun = "none"

\* a script runs while no hook process does, and leaves the hook's state alone
BetweenInvocations ==
  /\ pc = "Idle"
  /\ UNCHANGED <<pc, hookInput, data, disk, config, filePath, currentLines,
                 estimatedLines, exitCode, stderr, trace, override>>

\* install.sh main: install_hooks, register_hook, configure_ck
Install ==
  /\ BetweenInvocations
  /\ hookFiles' = TRUE
  /\ settings' = register_hook(settings)
  /\ ckFiles' = [ckFiles EXCEPT ![3] = configure_ck(@)]
  /\ lastRun' = "install"
  /\ UNCHANGED toggled

\* update.sh main: a healthy installation is updated only on request
Update ==
  /\ BetweenInvocations
  /\ \E proceed \in BOOLEAN :
       IF hookFiles /\ check_registration(settings) /\ ~proceed
       THEN UNCHANGED <<hookFiles, settings>>
       ELSE /\ hookFiles' = TRUE
            /\ settings' = register_hook(settings)
  /\ lastRun' = "update"
  /\ UNCHANGED <<ckFiles, toggled>>

\* file-size-guard-toggle.sh repair
Repair ==
  /\ BetweenInvocations
  /\ hookFiles' = TRUE
  /\ settings' = register_hook(settings)
  /\ ckFiles' = [ckFiles EXCEPT ![3] = EnableIfUndefined(ensure_config(@))]
  /\ lastRun' = "repair"
  /\ UNCHANGED toggled

\* file-size-guard-auto-repair.sh: registers when the files are there and
\* the registration is not
AutoRepair ==
  /\ BetweenInvocations
  /\ settings' = IF hookFiles /\ ~check_registration(settings)
                 THEN register_hook(settings) ELSE settings
  /\ lastRun' = "auto-repair"
  /\ UNCHANGED <<ckFiles, hookFiles, toggled>>

\* file-size-guard-toggle.sh enable (b) and disable (~b)
Toggle(b) ==
  /\ BetweenInvocations
  /\ ckFiles' = [ckFiles EXCEPT ![3] = SetEnabled(ensure_config(@), b)]
  /\ toggled' = IF ParsesToObject(ensure_config(ckFiles[3]))
                THEN (IF b THEN "enable" ELSE "disable") ELSE toggled
  /\ lastRun' = IF b THEN "enable" ELSE "disable"
  /\ UNCHANGED <<settings, hookFiles>>

Enable == Toggle(TRUE)

Disable == Toggle(FALSE)

\* file-size-guard-toggle.sh status
Status ==
  /\ BetweenInvocations
  /\ ckFiles' = [ckFiles EXCEPT ![3] = ensure_config(@)]
  /\ lastRun' = "status"
  /\ UNCHANGED <<settings, hookFiles, toggled>>

\* a hook invocation: node runs the installed hook on the request
Invoke == hookFiles /\ ReadStdinFrom(ScriptedInputs)

ScriptsNext ==
  \/ Install
  \/ Update
  \/ Repair
  \/ AutoRepair
  \/ Enable
  \/ Disable
  \/ Status
  \/ Invoke
  \/ LoadConfig
  \/ Estimate
  \/ CheckExclusions
  \/ CheckThresholds

ScriptsSpec == ScriptsInit /\ [][ScriptsNext]_vars

\* the hooks under PreToolUse that carry the guard's command
GuardEntries(s) ==
  LET pre == PreToolUse(s)
      places == UNION {{<<i, j>> : j \in DOMAIN pre[i].hooks} : i \in DOMAIN pre}
  IN  Cardinality({x \in places : pre[x[1]].hooks[x[2]].command = HOOK_COMMAND})

\* every entry and hook of a is in b, in place and as it was, and b adds
\* nothing but hooks with the guard's command
OthersKept(a, b) ==
  /\ Len(b) >= Len(a)
  /\ \A i \in DOMAIN a :
       /\ b[i].matcher = a[i].matcher
       /\ Len(b[i].hooks) >= Len(a[i].hooks)
       /\ SubSeq(b[i].hooks, 1, Len(a[i].hooks)) = a[i].hooks
  /\ \A i \in DOMAIN b : \A j \in DOMAIN b[i].hooks :
       (i > Len(a) \/ j > Len(a[i].hooks)) => b[i].hooks[j] = Hook(HOOK_COMMAND)

C29_DisableSticks ==
  [][/\ toggled' = "disable" =>
          /\ ParsesToObject(ckFiles'[3])
          /\ GuardOf(ckFiles'[3].v).enabled = Bool(FALSE)
          /\ Done' => exitCode' = 0
     /\ (lastRun' = "repair" /\ ParsesToObject(ckFiles[3]) /\ ParsesToObject(ckFiles'[3])
           /\ GuardOf(ckFiles'[3].v).enabled # GuardOf(ckFiles[3].v).enabled)
          => GuardOf(ckFiles[3].v).enabled = Undefined
     /\ (lastRun' \in {"enable", "disable"} /\ ParsesToObject(ckFiles[3]))
          => /\ ParsesToObject(ckFiles'[3])
             /\ [GuardOf(ckFiles'[3].v) EXCEPT !.enabled = Undefined]
                  = [GuardOf(ckFiles[3].v) EXCEPT !.enabled = Undefined]]_vars

\* C30: a hook invocation changes nothing outside its own output.  On every
\* path (allow, warn, block, error) each step of the run leaves the target
\* file, the three configuration files, settings.json and the installed hook
\* files as they were; what a run changes is its exit status and its
\* diagnostic stream.
C30_HookReadsOnly ==
  [][/\ disk' = disk
     /\ ckFiles' = ckFiles
     /\ settings' = settings
     /\ hookFiles' = hookFiles]_vars

\* C30 witness: a blocked run on a target file that exists, configured by a
\* file, with the hook registered in settings.json
C30_Witness ==
  /\ Done /\ ReportedStatus = "block"
  /\ Resolved /\ FileAt(filePath.v).exists /\ FileAt(filePath.v).content # ""
  /\ \E k \in DOMAIN ckFiles : FoundCk(k)
  /\ GuardEntries(settings) = 1

====
